---- MODULE Spec2Model ----
(***************************************************************************)
(* Model of src/server/systems/job.mjs: the Objective class, its kind      *)
(* strategies, reward issuance, and the Job queue with its infinite-loop   *)
(* marker and the player's reentrancy flag.                                *)
(*                                                                         *)
(* Spec        : every handler (add, start, check) is one atomic action.   *)
(* SpecOverlap : Job.check is split at the calls it makes into the player  *)
(*               object (emitMeta, send, addItem, ...), where a second     *)
(*               check for the same player may begin before the first has  *)
(*               returned.                                                 *)
(* SpecGiven   : the atomic handlers, each check leaving behind what it    *)
(*               was made with (range gate outcome, vehicle).              *)
(* SpecLive    : jobs with no marker on which checks that pass the gates   *)
(*               keep occurring (weak fairness).                           *)
(***************************************************************************)
EXTENDS Integers, Sequences, FiniteSets, TLC

\* ------------------------------------------------------------------ bounds
MaxObjectives == 4
MaxOverlapObjectives == 3
MaxLiveObjectives == 2
ProgressCap == 7
MaxCompleted == 4

\* --------------------------------------------------------------- constants
POINT == 0
CAPTURE == 1
HOLD == 2
MASH == 3
PLAYER == 4
ORDER == 5
INFINITE == 6

ON_FOOT == 1
IN_VEHICLE == 2
PROGRESS == 4

DefaultRange == 5
MinRange == 2
DefaultMaxProgress == 5
DefaultProgress == -1

\* an objective on which setPosition was never called has no pos field
NoPos == -1
\* the payload `undefined` of the 'job:Objective' meta
NoObjective == 0

\* the places a player can stand at (one axis is enough for the range gate):
\* at the objectives' position, and out of the range of every one of them
Positions == {0, 5}

\* ------------------------------------------------------- external services
\* distance of ../utility/vector.mjs, on one axis
distance(a, b) == IF a >= b THEN a - b ELSE b - a

\* Items of ../configuration/items.mjs: the keys the catalog knows
ItemKeys == {"Stack", "Single"}
ItemStackable(key) == key = "Stack"

\* ------------------------------------------------------------ pure helpers
\* (flags & flagValue) === flagValue, for a flagValue that is a power of two
isFlagged(flags, flagValue) == (flags \div flagValue) % 2 = 1

\* new Objective(objectiveType, objectiveFlags).  id and passes are not fields
\* of the class: id stands for the object's identity (its place in the order
\* of Job.add), passes counts the checks of it that passed the range and
\* vehicle gates.
Objective(objectiveType, objectiveFlags) ==
    [ id |-> NoObjective,
      type |-> objectiveType,
      flags |-> objectiveFlags,
      rewards |-> << >>,
      range |-> DefaultRange,
      maxProgress |-> DefaultMaxProgress,
      progress |-> DefaultProgress,
      pos |-> NoPos,
      passes |-> 0 ]

setPosition(o, p) == [o EXCEPT !.pos = p]

setRange(o, r) == [o EXCEPT !.range = IF r <= MinRange THEN MinRange ELSE r]

setRewards(o, arrayOfRewards) == [o EXCEPT !.rewards = arrayOfRewards]

Reward(t, p, q) == [type |-> t, prop |-> p, quantity |-> q]

\* the objectives the job-building commands hand to Job.add
ObjectiveInputs ==
    { setRewards(setRange(setPosition(Objective(POINT, ON_FOOT), 0), 2),
                 << Reward("item", "Single", 2) >>),
      setRewards(setRange(setPosition(Objective(CAPTURE, ON_FOOT), 0), 2),
                 << Reward("xp", "agility", 10) >>),
      setRewards(setRange(setPosition(Objective(HOLD, PROGRESS), 0), 1),
                 << Reward("item", "Single", 3), Reward("xp", "agility", 25),
                    Reward("item", "Stack", 3) >>),
      setRewards(Objective(MASH, IN_VEHICLE),
                 << Reward("item", "Missing", 1), Reward("item", "Stack", 3) >>),
      setRange(setPosition(Objective(PLAYER, 0), 0), 2),
      setRange(setPosition(Objective(ORDER, 0), 0), 2),
      Objective(INFINITE, ON_FOOT) }

\* isInRange(player, objective)
isInRange(playerPos, o) == ~(distance(playerPos, o.pos) >= o.range)

\* capture / hold / mash: the shared strategy; <<objective after, valid>>
capture(o) ==
    LET p == o.progress + 1
    IN  [obj |-> [o EXCEPT !.progress = p], valid |-> ~(p < o.maxProgress)]

hold(o) ==
    LET p == o.progress + 1
    IN  [obj |-> [o EXCEPT !.progress = p], valid |-> ~(p < o.maxProgress)]

\* mash that counts and never reports the objective as done
mashNeverDone(o) ==
    [obj |-> [o EXCEPT !.progress = @ + 1], valid |-> FALSE]

mash(o) ==
    LET p == o.progress + 1
    IN  [obj |-> [o EXCEPT !.progress = p], valid |-> ~(p < o.maxProgress)]

\* order has an empty body: it returns undefined, which its caller stores in
\* valid and every later test reads as false
order(o) == [obj |-> o, valid |-> FALSE]

\* !this.progress : true of 0 only (progress is always a number)
Falsy(n) == n = 0

\* Objective.checkObjective(player, args), stage by stage.

\* if (!this.pos) this.pos = player.pos
DefaultPos(o, playerPos) ==
    IF o.pos = NoPos THEN [o EXCEPT !.pos = playerPos] ELSE o

\* if (this.type <= 5) if (!isInRange(player, this)) valid = false
RangeGate(o, playerPos) ==
    IF o.type <= 5 THEN isInRange(playerPos, o) ELSE TRUE

\* OnFootGate without its test of player.vehicle
OnFootGateOff(o, valid, inVehicle) == valid

\* the ON_FOOT modifier
OnFootGate(o, valid, inVehicle) ==
    IF isFlagged(o.flags, ON_FOOT) /\ valid THEN ~inVehicle ELSE valid

\* the IN_VEHICLE modifier
InVehicleGate(o, valid, inVehicle) ==
    IF isFlagged(o.flags, IN_VEHICLE) /\ valid THEN inVehicle ELSE valid

\* the PROGRESS modifier
TrackProgress(o, valid) ==
    IF isFlagged(o.flags, PROGRESS) /\ valid /\ Falsy(o.progress)
    THEN [o EXCEPT !.progress = 0] ELSE o

\* Dispatch without its test of valid: the base type runs whatever the gates
\* said
DispatchUngated(o, valid) ==
    IF o.type = CAPTURE THEN capture(o)
    ELSE IF o.type = HOLD THEN hold(o)
    ELSE IF o.type = MASH THEN mash(o)
    ELSE IF o.type = ORDER THEN order(o)
    ELSE [obj |-> o, valid |-> valid]

\* the base objective type
Dispatch(o, valid) ==
    IF ~valid THEN [obj |-> o, valid |-> FALSE]
    ELSE IF o.type = CAPTURE THEN capture(o)
    ELSE IF o.type = HOLD THEN hold(o)
    ELSE IF o.type = MASH THEN mash(o)
    ELSE IF o.type = ORDER THEN order(o)
    ELSE [obj |-> o, valid |-> TRUE]

\*   obj   : the objective after the call
\*   gates : valid after the range and vehicle gates
\*   init  : progress after the PROGRESS modifier, before the base type
\*   valid : the returned value
CheckResult(k, gates, init) ==
    [obj |-> k.obj, gates |-> gates, init |-> init, valid |-> k.valid]

CheckTracked(o, gates) == CheckResult(Dispatch(o, gates), gates, o.progress)

CheckGated(o, gates) == CheckTracked(TrackProgress(o, gates), gates)

CheckPlaced(o, playerPos, inVehicle) ==
    CheckGated(o, InVehicleGate(o, OnFootGate(o, RangeGate(o, playerPos),
                                              inVehicle), inVehicle))

checkObjective(o, playerPos, inVehicle) ==
    CheckPlaced(DefaultPos(o, playerPos), playerPos, inVehicle)

\* the calls one reward makes on the player and the XP service
\* for (let i = 0; i < reward.quantity; i++) { addItem(.., 1, ..); send(..) }
GrantSingles(key, n) ==
    [ i \in 1..(2 * n) |->
        IF i % 2 = 1 THEN [call |-> "addItem", key |-> key, quantity |-> 1]
        ELSE [call |-> "send", key |-> key, quantity |-> 0] ]

\* IssueReward without its test of the catalog: an unknown key is granted as a
\* non-stackable item
IssueRewardUnchecked(reward) ==
    IF reward.type = "xp"
    THEN << [call |-> "addXP", key |-> reward.prop, quantity |-> reward.quantity] >>
    ELSE IF reward.type = "item"
    THEN IF reward.prop \in ItemKeys /\ ItemStackable(reward.prop)
         THEN << [call |-> "addItem", key |-> reward.prop,
                  quantity |-> reward.quantity],
                 [call |-> "send", key |-> reward.prop, quantity |-> 0] >>
         ELSE GrantSingles(reward.prop, reward.quantity)
    ELSE << >>

\* IssueReward with every catalog item granted one by one
IssueRewardSingly(reward) ==
    IF reward.type = "xp"
    THEN << [call |-> "addXP", key |-> reward.prop, quantity |-> reward.quantity] >>
    ELSE IF reward.type = "item" /\ reward.prop \in ItemKeys
    THEN GrantSingles(reward.prop, reward.quantity)
    ELSE << >>

IssueReward(reward) ==
    IF reward.type = "xp"
    THEN << [call |-> "addXP", key |-> reward.prop, quantity |-> reward.quantity] >>
    ELSE IF reward.type = "item"
    THEN IF reward.prop \in ItemKeys
         THEN IF ItemStackable(reward.prop)
              THEN << [call |-> "addItem", key |-> reward.prop,
                       quantity |-> reward.quantity],
                      [call |-> "send", key |-> reward.prop, quantity |-> 0] >>
              ELSE GrantSingles(reward.prop, reward.quantity)
         ELSE << >>
    ELSE << >>

\* this.rewards.forEach(reward => ...)
IssueRewards(rewards) ==
    LET upto[i \in 0..Len(rewards)] ==
            IF i = 0 THEN << >> ELSE upto[i - 1] \o IssueReward(rewards[i])
    IN  upto[Len(rewards)]

\* Objective.attemptObjective(player, ...args), given what checkObjective did
\*   result   : the returned value
\*   rewarded : the rewards were issued
\*   grants   : the calls the rewards made, in order
AttemptResult(c) ==
    IF ~c.valid
    THEN [obj |-> c.obj, gates |-> c.gates, init |-> c.init,
          result |-> FALSE, rewarded |-> FALSE, grants |-> << >>]
    ELSE [obj |-> c.obj, gates |-> c.gates, init |-> c.init,
          result |-> TRUE, rewarded |-> TRUE,
          grants |-> IssueRewards(c.obj.rewards)]

attemptObjective(o, playerPos, inVehicle) ==
    AttemptResult(checkObjective(o, playerPos, inVehicle))

\* copyObjective(original): a shallow copy, field for field
copyObjective(original) == original

\* ------------------------------------------------------------------- state
VARIABLES
    phase,        \* "building": the command is adding objectives; "started"
    objectives,   \* Job.objectives
    infinite,     \* Job.infinite (undefined, read as false, until it is set)
    checking,     \* player.checking
    published,    \* the player's 'job:Objective' meta: an objective's id
    jobComplete,  \* player.send('Job Complete') was called
    pc,           \* where the executing Job.check call stands
    inflight,     \* the executing call's locals: attempt's result, lastObjective
    last,         \* what the latest Job.check call did
    built,        \* the objectives as they were added, in order
    ncompleted,   \* how many objectives completed, counted up to MaxCompleted
    lap,          \* the queue's order when a round of the loop began
    owed,         \* ids whose rewards were issued and whose next() is to come
    stray,        \* next() removed an objective no reward was issued for
    given         \* what the latest check was made with (SpecGiven only)

vars == << phase, objectives, infinite, checking, published, jobComplete, pc,
           inflight, last, built, ncompleted, lap, owed, stray, given >>

\* the fields of the job and the player that the handlers read and write
JobState ==
    [ objectives |-> objectives, infinite |-> infinite, checking |-> checking,
      published |-> published, jobComplete |-> jobComplete ]

Install(s) ==
    /\ objectives' = s.objectives
    /\ infinite' = s.infinite
    /\ checking' = s.checking
    /\ published' = s.published
    /\ jobComplete' = s.jobComplete

Ids(q) == [i \in 1..Len(q) |-> q[i].id]

NoCall ==
    [ outcome |-> "none", nested |-> FALSE, head |-> NoObjective,
      pre |-> DefaultProgress, init |-> DefaultProgress, post |-> DefaultProgress,
      gates |-> FALSE, passes |-> 0, rewarded |-> FALSE, grants |-> << >>,
      before |-> << >>, infBefore |-> FALSE ]

NoLocals == [result |-> FALSE, lastObjective |-> << >>]

NoInputs == [inRange |-> FALSE, inVehicle |-> FALSE, hadPos |-> FALSE]

\* JSON.stringify(this.objectives[0]), as the id of the objective it names
HeadPayload(q) == IF q = << >> THEN NoObjective ELSE q[1].id

\* Recycle without its test of this.infinite
RecycleAlways(s, lastObjective) ==
    IF lastObjective # << >>
    THEN [s EXCEPT !.objectives = @ \o lastObjective] ELSE s

\* Recycle with unshift in the place of push
RecycleAtHead(s, lastObjective) ==
    IF s.infinite /\ lastObjective # << >>
    THEN [s EXCEPT !.objectives = lastObjective \o @] ELSE s

\* if (this.infinite) this.objectives.push(lastObjective)
Recycle(s, lastObjective) ==
    IF s.infinite /\ lastObjective # << >>
    THEN [s EXCEPT !.objectives = @ \o lastObjective] ELSE s

\* SkipMarker that sets the flag and leaves the marker in the queue
SkipMarkerKept(s) ==
    IF Head(s.objectives).type = INFINITE
    THEN [s EXCEPT !.infinite = TRUE] ELSE s

\* if (this.objectives[0].type === Objectives.INFINITE) { ... }
SkipMarker(s) ==
    IF Head(s.objectives).type = INFINITE
    THEN [s EXCEPT !.objectives = Tail(@), !.infinite = TRUE] ELSE s

\* player.emitMeta('job:Objective', JSON.stringify(this.objectives[0]))
Publish(s) == [s EXCEPT !.published = HeadPayload(s.objectives)]

\* Job.next(player), from the test of objectives[0] on: what follows the
\* shift and the 'job:ClearObjective' meta
NextRest(s, lastObjective) ==
    IF s.objectives # << >>
    THEN Publish(SkipMarker(Recycle(s, lastObjective)))
    ELSE [s EXCEPT !.published = NoObjective, !.jobComplete = TRUE]

\* const lastObjective = this.objectives.shift(): << >> stands for undefined
NextShift(s) ==
    [ state |-> [s EXCEPT !.objectives = IF @ = << >> THEN @ ELSE Tail(@)],
      lastObjective |-> IF s.objectives = << >> THEN << >>
                        ELSE << Head(s.objectives) >> ]

NextAfterShift(sh) == NextRest(sh.state, sh.lastObjective)

\* Job.next(player)
JobNext(s) == NextAfterShift(NextShift(s))

Min(a, b) == IF a <= b THEN a ELSE b

Passes(o, gates) == IF gates THEN Min(o.passes + 1, ProgressCap) ELSE o.passes

\* the state and the record of a call whose attempt on o returned a
Attempted(s, o, a) ==
    [ state |-> [s EXCEPT !.checking = TRUE,
                          !.objectives =
                              << [a.obj EXCEPT !.passes = Passes(o, a.gates)] >>
                              \o Tail(@),
                          !.published = IF a.result THEN NoObjective ELSE @],
      outcome |-> IF a.result THEN "complete" ELSE "incomplete",
      call |-> [ NoCall EXCEPT !.head = o.id, !.pre = o.progress,
                               !.init = a.init, !.post = a.obj.progress,
                               !.gates = a.gates, !.passes = Passes(o, a.gates),
                               !.rewarded = a.rewarded, !.grants = a.grants ] ]

AttemptOn(s, o, playerPos, inVehicle) ==
    Attempted(s, o, attemptObjective(o, playerPos, inVehicle))

\* CheckBegin without its test of player.checking
CheckBeginUnguarded(s, playerPos, inVehicle) ==
    IF s.objectives = << >>
    THEN [ state |-> [s EXCEPT !.checking = TRUE], outcome |-> "threw",
           call |-> NoCall ]
    ELSE AttemptOn(s, Head(s.objectives), playerPos, inVehicle)

\* Job.check up to the value attemptObjective returns:
\*   the guard, the flag, and the attempt on objectives[0]
CheckBegin(s, playerPos, inVehicle) ==
    IF s.checking
    THEN [ state |-> s, outcome |-> "guarded", call |-> NoCall ]
    ELSE IF s.objectives = << >>
    THEN [ state |-> [s EXCEPT !.checking = TRUE], outcome |-> "threw",
           call |-> NoCall ]
    ELSE AttemptOn(s, Head(s.objectives), playerPos, inVehicle)

\* Job.check after attemptObjective returned: the flag is cleared, and on
\* success next() begins with its shift
CheckEnd(s, result) ==
    IF result
    THEN NextShift([s EXCEPT !.checking = FALSE])
    ELSE [ state |-> [s EXCEPT !.checking = FALSE], lastObjective |-> << >> ]

\* Job.check once CheckBegin is through, to its return
CheckFinish(b) ==
    IF b.outcome \in {"guarded", "threw"} THEN b
    ELSE IF b.outcome = "incomplete"
    THEN [b EXCEPT !.state = CheckEnd(@, FALSE).state]
    ELSE [b EXCEPT !.state = NextAfterShift(CheckEnd(@, TRUE))]

\* Job.check(player, ...args), entry to return
JobCheck(s, playerPos, inVehicle) ==
    CheckFinish(CheckBegin(s, playerPos, inVehicle))

Record(b, s, isNested) ==
    [ b.call EXCEPT !.outcome = b.outcome, !.nested = isNested,
                    !.before = Ids(s.objectives), !.infBefore = s.infinite ]

\* a check is made only while the head's counters are below the cap
BelowCap ==
    IF objectives = << >> THEN TRUE ELSE Head(objectives).progress < ProgressCap

Bump(n) == Min(n + 1, MaxCompleted)

HasMarker(q) == \E i \in 1..Len(q) : q[i].type = INFINITE

\* the round of the loop a completion belongs to
LapAfter(call, s) ==
    IF call.outcome # "complete" THEN lap
    ELSE IF s.infinite /\ Len(s.objectives) >= 2 /\ ~HasMarker(s.objectives)
    THEN IF lap.start = << >> \/ lap.n >= Len(lap.start)
         THEN [start |-> Ids(s.objectives), n |-> 1]
         ELSE [lap EXCEPT !.n = @ + 1]
    ELSE [start |-> << >>, n |-> 0]

\* ----------------------------------------------------------------- actions
Init ==
    /\ phase = "building"
    /\ objectives = << >>
    /\ infinite = FALSE
    /\ checking = FALSE
    /\ published = NoObjective
    /\ jobComplete = FALSE
    /\ pc = "idle"
    /\ inflight = NoLocals
    /\ last = NoCall
    /\ built = << >>
    /\ ncompleted = 0
    /\ lap = [start |-> << >>, n |-> 0]
    /\ owed = << >>
    /\ stray = FALSE
    /\ given = NoInputs

\* Job.add(copyObjective(objective)), in the command that builds the job,
\* for a job of at most n objectives
AddUpTo(t, n) ==
    /\ phase = "building"
    /\ Len(objectives) < n
    /\ LET o == [copyObjective(t) EXCEPT !.id = Len(objectives) + 1]
       IN  /\ objectives' = Append(objectives, o)
           /\ built' = Append(built, o)
    /\ UNCHANGED << phase, infinite, checking, published, jobComplete, pc,
                    inflight, last, ncompleted, lap, owed, stray, given >>

Add(t) == AddUpTo(t, MaxObjectives)

\* Job.start(player)
Start ==
    /\ phase = "building"
    /\ phase' = "started"
    /\ published' = HeadPayload(objectives)
    /\ UNCHANGED << objectives, infinite, checking, jobComplete, pc, inflight,
                    last, built, ncompleted, lap, owed, stray, given >>

Checked(b, isNested) ==
    /\ Install(b.state)
    /\ last' = Record(b, JobState, isNested)
    /\ ncompleted' = IF b.outcome = "complete" THEN Bump(ncompleted)
                     ELSE ncompleted

\* check(player) -> player.job.check(player), entry to return
Check(playerPos, inVehicle) ==
    /\ phase = "started"
    /\ pc = "idle"
    /\ BelowCap
    /\ Checked(JobCheck(JobState, playerPos, inVehicle), FALSE)
    /\ lap' = LapAfter(last', JobState)
    /\ UNCHANGED << phase, pc, inflight, built, owed, stray, given >>

Next ==
    \/ \E t \in ObjectiveInputs : Add(t)
    \/ Start
    \/ \E p \in Positions, v \in BOOLEAN : Check(p, v)

Spec == Init /\ [][Next]_vars

\* ------------------------------------------- actions of overlapping checks
\* A call made by Job.check into the player object (emitMeta, send, addItem,
\* playAnimation, playAudio) or the XP service may run a second check for the
\* same player before it returns.  pc = "inAttempt" stands for the calls made
\* inside attemptObjective (lines 198-242), pc = "inNext" for the
\* 'job:ClearObjective' meta of next() (line 415); the calls that end next()
\* (lines 430-435) leave the job as it is when check returns.  The second
\* check runs from its entry to its return.

AddFew(t) == AddUpTo(t, MaxOverlapObjectives)

Entered(b) ==
    /\ Install(b.state)
    /\ last' = Record(b, JobState, FALSE)
    /\ pc' = IF b.outcome \in {"guarded", "threw"} THEN "idle" ELSE "inAttempt"
    /\ inflight' = [NoLocals EXCEPT !.result = b.outcome = "complete"]
    /\ owed' = IF b.outcome = "complete" THEN Append(owed, b.call.head) ELSE owed

\* Job.check, lines 444-447: entry, up to the calls attemptObjective makes
CheckEnter(playerPos, inVehicle) ==
    /\ phase = "started"
    /\ pc = "idle"
    /\ BelowCap
    /\ Entered(CheckBegin(JobState, playerPos, inVehicle))
    /\ UNCHANGED << phase, built, ncompleted, lap, stray, given >>

\* the reward issued last is the one of the objective next() removes
Settles(lastObjective) ==
    /\ owed # << >>
    /\ lastObjective # << >>
    /\ owed[Len(owed)] = lastObjective[1].id

Left(e) ==
    /\ Install(e.state)
    /\ pc' = IF inflight.result THEN "inNext" ELSE "idle"
    /\ inflight' = [NoLocals EXCEPT !.lastObjective = e.lastObjective]
    /\ owed' = IF inflight.result /\ Settles(e.lastObjective)
               THEN SubSeq(owed, 1, Len(owed) - 1) ELSE owed
    /\ stray' = IF inflight.result /\ ~Settles(e.lastObjective)
                THEN TRUE ELSE stray

\* Job.check, lines 447-453, and next(), lines 414-415: attemptObjective has
\* returned; the flag is cleared, and on success the head is shifted
CheckLeave ==
    /\ pc = "inAttempt"
    /\ Left(CheckEnd(JobState, inflight.result))
    /\ UNCHANGED << phase, last, built, ncompleted, lap, given >>

\* next(), lines 418-436, and the return of Job.check
NextResume ==
    /\ pc = "inNext"
    /\ Install(NextRest(JobState, inflight.lastObjective))
    /\ pc' = "idle"
    /\ inflight' = NoLocals
    /\ ncompleted' = Bump(ncompleted)
    /\ UNCHANGED << phase, last, built, lap, owed, stray, given >>

\* a second Job.check for the player, begun inside the first one; when it
\* throws, the caller it was begun from swallows the exception
NestedCheck(playerPos, inVehicle) ==
    /\ pc \in {"inAttempt", "inNext"}
    /\ BelowCap
    /\ Checked(JobCheck(JobState, playerPos, inVehicle), TRUE)
    /\ UNCHANGED << phase, pc, inflight, built, lap, owed, stray, given >>

\* a second Job.check that throws, the exception unwinding the first call
NestedThrowUnwinds ==
    /\ pc \in {"inAttempt", "inNext"}
    /\ ~checking
    /\ objectives = << >>
    /\ Checked(JobCheck(JobState, 0, FALSE), TRUE)
    /\ pc' = "idle"
    /\ inflight' = NoLocals
    /\ UNCHANGED << phase, built, lap, owed, stray, given >>

NextOverlap ==
    \/ \E t \in ObjectiveInputs : AddFew(t)
    \/ Start
    \/ \E p \in Positions, v \in BOOLEAN : CheckEnter(p, v)
    \/ CheckLeave
    \/ NextResume
    \/ \E p \in Positions, v \in BOOLEAN : NestedCheck(p, v)
    \/ NestedThrowUnwinds

SpecOverlap == Init /\ [][NextOverlap]_vars

\* ----------------------------------- actions that keep the checks' inputs
\* SpecGiven: the atomic handlers of Spec on jobs of at most
\* MaxOverlapObjectives objectives, each check leaving in `given` what it was
\* made with.

\* what a check of the head was made with:
\*   inRange   : the outcome of the range gate (lines 258-260)
\*   inVehicle : player.vehicle is set
\*   hadPos    : this.pos was set when the call began
Inputs(o, playerPos, inVehicle) ==
    [ inRange |-> RangeGate(DefaultPos(o, playerPos), playerPos),
      inVehicle |-> inVehicle,
      hadPos |-> o.pos # NoPos ]

\* check(player) -> player.job.check(player), entry to return
CheckGiven(playerPos, inVehicle) ==
    /\ phase = "started"
    /\ pc = "idle"
    /\ BelowCap
    /\ Checked(JobCheck(JobState, playerPos, inVehicle), FALSE)
    /\ lap' = LapAfter(last', JobState)
    /\ given' = IF objectives = << >> THEN NoInputs
                ELSE Inputs(Head(objectives), playerPos, inVehicle)
    /\ UNCHANGED << phase, pc, inflight, built, owed, stray >>

NextGiven ==
    \/ \E t \in ObjectiveInputs : AddFew(t)
    \/ Start
    \/ \E p \in Positions, v \in BOOLEAN : CheckGiven(p, v)

SpecGiven == Init /\ [][NextGiven]_vars

\* ------------------------------------------- checks that keep on occurring
\* SpecLive: a job of POINT, CAPTURE, HOLD and MASH objectives with no marker,
\* on which check calls keep being made, each with the player in the range of
\* the head objective and as its vehicle modifiers ask.

LiveInputs == {t \in ObjectiveInputs : t.type \in {POINT, CAPTURE, HOLD, MASH}}

AddLive(t) == AddUpTo(t, MaxLiveObjectives)

\* check(player) -> player.job.check(player), entry to return, made from a
\* place and a vehicle state that the gates of the head let through
CheckPassing(playerPos, inVehicle) ==
    /\ phase = "started"
    /\ pc = "idle"
    /\ BelowCap
    /\ \E b \in {CheckBegin(JobState, playerPos, inVehicle)} :
           /\ b.outcome = "incomplete" => b.call.gates
           /\ \E f \in {CheckFinish(b)} : Checked(f, FALSE)
    /\ lap' = LapAfter(last', JobState)
    /\ UNCHANGED << phase, pc, inflight, built, owed, stray, given >>

ChecksGoOn == \E p \in Positions, v \in BOOLEAN : CheckPassing(p, v)

NextLive ==
    \/ \E t \in LiveInputs : AddLive(t)
    \/ Start
    \/ ChecksGoOn

SpecLive == Init /\ [][NextLive]_vars /\ WF_vars(ChecksGoOn)

\* ------------------------------------------------------------------ claims
MadeAttempt == last.outcome \in {"incomplete", "complete"}

SelfProgressing(id) == built[id].type \in {CAPTURE, HOLD, MASH}

IsMarker(id) == built[id].type = INFINITE

NonMarkerIds(ids) == SelectSeq(ids, LAMBDA i : ~IsMarker(i))

Front(q) == SubSeq(q, 1, Len(q) - 1)

\* C1: a CAPTURE, HOLD or MASH objective with maxProgress 5 and fresh progress
\* completes on its 5th check that passes the gates; the checks before it
\* return false and leave progress at 1, 2, 3, 4, and the 5th moves progress
\* from 4 to 5.
C1_FiveChecksComplete ==
    (MadeAttempt /\ last.gates /\ SelfProgressing(last.head)) =>
        /\ last.passes \in 1..4 =>
               (last.outcome = "incomplete" /\ last.post = last.passes)
        /\ last.passes = 5 =>
               (last.outcome = "complete" /\ last.pre = 4 /\ last.post = 5)

\* C2: once infinite is set, a completed objective is re-appended to the tail,
\* the queue does not become empty and the job does not complete.
C2_LoopNeverDrains ==
    (last.outcome = "complete" /\ last.infBefore /\ ~IsMarker(last.head)) =>
        /\ objectives # << >>
        /\ objectives[Len(objectives)].id = last.before[1]
        /\ ~jobComplete

C4_CheckAfterCompleteIsNoOp ==
    (jobComplete /\ ~infinite) =>
        /\ published = NoObjective
        /\ objectives = << >>
        /\ last.outcome # "threw"
        /\ ~checking

\* C5: a Job.check begun while another one for the same player is executing,
\* anywhere between its entry and its return, is a no-op: it makes no attempt
\* on the objective, so that progress and the queue stay as they were.
C5_SecondCallIsNoOp ==
    last.nested => ~MadeAttempt

\* C6: the rewards of the head objective are issued by a check exactly when
\* its attemptObjective returns true; every issuance is followed by one next()
\* that removes that objective; a check that is not complete issues nothing.
C6_RewardsOncePerCompletion ==
    /\ MadeAttempt => (last.rewarded <=> last.outcome = "complete")
    /\ ~MadeAttempt => (~last.rewarded /\ last.grants = << >>)
    /\ last.outcome = "incomplete" => last.grants = << >>
    /\ ~stray
    /\ Len(owed) <= 1
    /\ pc # "inAttempt" => owed = << >>
    /\ owed # << >> =>
           /\ inflight.result
           /\ objectives # << >>
           /\ objectives[1].id = owed[1]

\* a second check overlapped a check whose rewards are issued and whose
\* next() is still to come
C6_OverlapWhileOwed ==
    /\ pc = "inAttempt"
    /\ owed # << >>
    /\ last.nested
    /\ built[owed[1]].rewards # << >>

\* the next() of the latest check consumed the marker that followed its head
C7_MarkerAfterHead ==
    /\ last.outcome = "complete"
    /\ ~last.nested
    /\ ~last.infBefore
    /\ Len(last.before) >= 3
    /\ IsMarker(last.before[2])
    /\ ~IsMarker(last.before[3])

\* C7: with the queue [X, InfiniteMarker, Y, ..] and infinite not set, the
\* next() after X completes sets infinite, removes X and the marker without
\* re-appending either, and publishes Y, the new head.
C7_MarkerConsumed ==
    C7_MarkerAfterHead =>
        /\ infinite
        /\ Ids(objectives) = SubSeq(last.before, 3, Len(last.before))
        /\ published = last.before[3]

\* the latest check completed the head of a looping queue of two or more
C8_LoopStep ==
    /\ last.outcome = "complete"
    /\ ~last.nested
    /\ last.infBefore
    /\ Len(last.before) >= 2

C9_ProgressBounded ==
    \A i \in 1..Len(objectives) :
        objectives[i].progress <= objectives[i].maxProgress

\* C10: with the PROGRESS modifier, a check that passes the gates while
\* progress is still -1 sets progress to 0 before the base type runs.
C10_LazyInit ==
    (MadeAttempt /\ last.gates /\ isFlagged(built[last.head].flags, PROGRESS)
        /\ last.pre = DefaultProgress) => last.init = 0

\* C11: an objective built with no position passes the range gate on every
\* check of it, wherever the player stands at that check.
C11_NoPosAlwaysInRange ==
    (MadeAttempt /\ built[last.head].pos = NoPos) => given.inRange

\* an objective with the ON_FOOT modifier whose progress had begun was checked
\* in its range from a vehicle
C12_OnFootInVehicle ==
    /\ MadeAttempt
    /\ isFlagged(built[last.head].flags, ON_FOOT)
    /\ SelfProgressing(last.head)
    /\ given.inVehicle
    /\ given.inRange
    /\ last.pre >= 0

\* C12: a check of an objective with the ON_FOOT modifier made while the
\* player is in a vehicle returns false and leaves progress as it was,
\* whatever the objective's kind, the player's position and the progress.
C12_OnFootFailsInVehicle ==
    (MadeAttempt /\ isFlagged(built[last.head].flags, ON_FOOT)
        /\ given.inVehicle) =>
        /\ last.outcome = "incomplete"
        /\ ~last.gates
        /\ last.init = last.pre
        /\ last.post = last.pre
        /\ objectives # << >>
        /\ objectives[1].id = last.head
        /\ objectives[1].progress = last.pre

\* the rewards of the objective the latest check was made on
HeadRewards == built[last.head].rewards

\* the calls of one kind the latest check made for one reward key
Calls(kind, key) ==
    SelectSeq(last.grants, LAMBDA g : g.call = kind /\ g.key = key)

\* the place in the reward list of the reward a call was made for
RewardAt(key) == CHOOSE i \in 1..Len(HeadRewards) : HeadRewards[i].prop = key

IsCatalogItem(reward) == reward.type = "item" /\ reward.prop \in ItemKeys

\* an objective completed whose rewards hold a non-stackable item of quantity
\* 3 followed by a stackable item of quantity 3
C13_BothKindsRewarded ==
    /\ last.outcome = "complete"
    /\ \E i, j \in 1..Len(HeadRewards) :
           /\ i < j
           /\ HeadRewards[i] = Reward("item", "Single", 3)
           /\ HeadRewards[j] = Reward("item", "Stack", 3)

\* C13: on completion, an item reward of quantity q makes one addItem call of
\* quantity q when the catalog item is stackable, and q addItem calls of
\* quantity 1 with q notifications when it is not; the calls follow the order
\* of the reward list.
C13_ItemGrants ==
    last.outcome = "complete" =>
        /\ \A i \in 1..Len(HeadRewards) :
               IsCatalogItem(HeadRewards[i]) =>
                   IF ItemStackable(HeadRewards[i].prop)
                   THEN Calls("addItem", HeadRewards[i].prop) =
                            << [call |-> "addItem", key |-> HeadRewards[i].prop,
                                quantity |-> HeadRewards[i].quantity] >>
                   ELSE /\ Len(Calls("addItem", HeadRewards[i].prop)) =
                               HeadRewards[i].quantity
                        /\ \A k \in 1..HeadRewards[i].quantity :
                               Calls("addItem", HeadRewards[i].prop)[k].quantity = 1
                        /\ Len(Calls("send", HeadRewards[i].prop)) =
                               HeadRewards[i].quantity
        /\ \A a, b \in 1..Len(last.grants) :
               a < b => RewardAt(last.grants[a].key) <= RewardAt(last.grants[b].key)

IsUnknownItem(reward) == reward.type = "item" /\ reward.prop \notin ItemKeys

\* the calls the latest check made for one reward key
CallsFor(key) == SelectSeq(last.grants, LAMBDA g : g.key = key)

\* the queue next() leaves behind when the head of `before` completed
Advanced(before, head, looping) ==
    IF Len(before) = 1 THEN << >>
    ELSE NonMarkerIds(Tail(before)) \o (IF looping THEN << head >> ELSE << >>)

\* an objective that is not the last one completed, its rewards holding an
\* item the catalog does not know, followed by one it knows
C14_UnknownKeyThenKnown ==
    /\ last.outcome = "complete"
    /\ Len(last.before) >= 2
    /\ \E i, j \in 1..Len(HeadRewards) :
           /\ i < j
           /\ IsUnknownItem(HeadRewards[i])
           /\ IsCatalogItem(HeadRewards[j])

\* C14: when a completed objective's rewards hold an item whose key the
\* catalog does not know, no addItem and no notification is made for it, the
\* other rewards are issued, attemptObjective returns true and the job
\* advances.
C14_UnknownKeySkipped ==
    (last.outcome = "complete"
        /\ \E i \in 1..Len(HeadRewards) : IsUnknownItem(HeadRewards[i])) =>
        /\ \A i \in 1..Len(HeadRewards) :
               IF IsUnknownItem(HeadRewards[i])
               THEN CallsFor(HeadRewards[i].prop) = << >>
               ELSE CallsFor(HeadRewards[i].prop) # << >>
        /\ last.rewarded
        /\ NonMarkerIds(Ids(objectives)) =
               Advanced(last.before, last.head, last.infBefore)
        /\ published = HeadPayload(objectives)

\* C15: PLAYER and ORDER objectives are both pass-through: a check of either
\* leaves progress alone and returns what the range and modifier gates gave,
\* so that both kinds complete under the same conditions.
C15_PassThroughAlike ==
    (MadeAttempt /\ built[last.head].type \in {PLAYER, ORDER}) =>
        /\ last.post = last.pre
        /\ last.outcome = "complete" <=> last.gates

\* C16: the InfiniteMarker is never the objective published to the player by
\* start() or next(), and attemptObjective is never called on it, in whatever
\* order the objectives were added.
C16_MarkerNeverHead ==
    /\ published # NoObjective => ~IsMarker(published)
    /\ MadeAttempt => ~IsMarker(last.head)

C18_FlagClearWhenIdle ==
    pc = "idle" => ~checking

\* C19: whenever next() leaves the queue empty, the job-complete notification
\* has been sent by it, a queue that ended with the InfiniteMarker included.
C19_EmptyMeansComplete ==
    (phase = "started" /\ last.outcome = "complete" /\ objectives = << >>) =>
        jobComplete

\* a job of two or more objectives, a MASH one among them, was completed
C20_JobDone ==
    /\ phase = "started"
    /\ Len(built) >= 2
    /\ \E i \in 1..Len(built) : built[i].type = MASH
    /\ objectives = << >>
    /\ jobComplete

\* C20: a started job with no marker, made of POINT, CAPTURE, HOLD and MASH
\* objectives, eventually has an empty queue and its job-complete
\* notification sent, when checks that pass the gates of the head keep
\* occurring.
C20_EventuallyComplete ==
    (phase = "started" /\ objectives # << >>) ~> (objectives = << >> /\ jobComplete)

====
